---- MODULE Spec2Model ----
(***************************************************************************)
(* The CLI to-do list application: the JSON-file user store and the        *)
(* AuthManager over it (src/src/auth.py), the TodoItem value type with its *)
(* dictionary conversion (src/src/models.py), and the menu loop of App     *)
(* over an AuthManager (src/src/main.py).                                  *)
(*                                                                         *)
(* A file's text is a sequence of lexical tokens of the JSON grammar, and  *)
(* a Python value is a tagged record; json.loads is a recursive-descent    *)
(* parser over the tokens and json.dumps(indent=4) is the printer.         *)
(***************************************************************************)
EXTENDS Integers, Sequences, FiniteSets, TLC

VARIABLES
    file,       \* the user-store file at storage_path: [exists, text]
    mgr,        \* the AuthManager: "absent", "ready", or "raised" (__init__ failed)
    last,       \* the most recent call: its arguments, outcome and the file before it
    preceding,  \* the register call, with the same username, that the last
                \* authenticate immediately followed
    procs,      \* the concurrent registrations: each process's step and locals
    todo,       \* the TodoItem under conversion, with its dict and the item read back
    app         \* the App: its fields, where run is, and what its last step did

vars == <<file, mgr, last, preceding, procs, todo, app>>

----------------------------------------------------------------------------
(* Bounds of the model.                                                    *)

\* how many distinct non-empty usernames the callers draw from
MaxNames == 2

NamePool == <<"alice", "Alice", "bob", "carol">>

PasswordPool == <<"pw1", "PW1">>

\* the arguments a caller may pass: the empty string and the pooled strings
Usernames == {""} \cup {NamePool[i] : i \in 1..MaxNames}

Passwords == {""} \cup {PasswordPool[i] : i \in DOMAIN PasswordPool}

----------------------------------------------------------------------------
(* Text: tokens of a file's content.                                       *)

Tok(k, v) == [k |-> k, v |-> v]

LB == Tok("punct", "[")

RB == Tok("punct", "]")

LC == Tok("punct", "{")

RC == Tok("punct", "}")

COMMA == Tok("punct", ",")

COLON == Tok("punct", ":")

\* a run of whitespace: a newline with its indentation, or a blank
NL == Tok("ws", "\n")

SP == Tok("ws", " ")

\* a JSON string literal, a JSON number, the literal null
StrTok(s) == Tok("str", s)

NumTok(n) == Tok("num", n)

NullTok == Tok("null", "null")

\* a byte sequence that is not valid UTF-8
BadUtf8 == Tok("bad", "\\xff")

\* a character that starts no JSON token
Junk == Tok("junk", "x")

\* str.strip(): drop the leading and the trailing whitespace
RECURSIVE LStrip(_)
LStrip(t) == IF t # <<>> /\ Head(t).k = "ws" THEN LStrip(Tail(t)) ELSE t

RECURSIVE RStrip(_)
RStrip(t) ==
    IF t # <<>> /\ t[Len(t)].k = "ws" THEN RStrip(SubSeq(t, 1, Len(t) - 1)) ELSE t

\* strip() left out: the text as it is
NoStrip(t) == t

strip(t) == RStrip(LStrip(t))

----------------------------------------------------------------------------
(* Python values, as far as json produces them.                            *)

PyNone == [type |-> "None"]

PyStr(s) == [type |-> "str", s |-> s]

PyInt(n) == [type |-> "int", s |-> n]

PyList(items) == [type |-> "list", items |-> items]

\* a dict is its items in insertion order, each [key, val], keys distinct
PyDict(items) == [type |-> "dict", items |-> items]

Item(k, v) == [key |-> k, val |-> v]

\* d[k] = v on a dict: a present key keeps its place and takes the new value
DictSet(items, k, v) ==
    IF \E i \in 1..Len(items) : items[i].key = k
    THEN [i \in 1..Len(items) |-> IF items[i].key = k THEN Item(k, v) ELSE items[i]]
    ELSE Append(items, Item(k, v))

\* the username stored under both keys
UserRecordNameTwice(username, password) ==
    PyDict(<<Item("username", PyStr(username)), Item("password", PyStr(username))>>)

\* the record register builds: {"username": username, "password": password}
UserRecord(username, password) ==
    PyDict(<<Item("username", PyStr(username)), Item("password", PyStr(password))>>)

----------------------------------------------------------------------------
(* json.loads: whitespace, then one value, then whitespace, then the end.  *)

Fail == [ok |-> FALSE, val |-> PyNone, next |-> 0]

Ok(v, n) == [ok |-> TRUE, val |-> v, next |-> n]

\* the index of the first token at or after i that is not whitespace
RECURSIVE SkipWs(_, _)
SkipWs(t, i) == IF i <= Len(t) /\ t[i].k = "ws" THEN SkipWs(t, i + 1) ELSE i

IsTok(t, i, tok) == i <= Len(t) /\ t[i] = tok

RECURSIVE ParseValue(_, _)
RECURSIVE ParseArray(_, _, _)
RECURSIVE ParseObject(_, _, _)

\* one value starting at token i (no leading whitespace)
ParseValue(t, i) ==
    IF i > Len(t) THEN Fail
    ELSE IF t[i].k = "str" THEN Ok(PyStr(t[i].v), i + 1)
    ELSE IF t[i].k = "num" THEN Ok(PyInt(t[i].v), i + 1)
    ELSE IF t[i].k = "null" THEN Ok(PyNone, i + 1)
    ELSE IF t[i] = LB
         THEN LET j == SkipWs(t, i + 1)
              IN  IF IsTok(t, j, RB) THEN Ok(PyList(<<>>), j + 1)
                  ELSE ParseArray(t, j, <<>>)
    ELSE IF t[i] = LC
         THEN LET j == SkipWs(t, i + 1)
              IN  IF IsTok(t, j, RC) THEN Ok(PyDict(<<>>), j + 1)
                  ELSE ParseObject(t, j, <<>>)
    ELSE Fail

\* the elements of an array from token i on, up to its closing bracket
ParseArray(t, i, acc) ==
    LET r == ParseValue(t, i)
    IN  IF ~r.ok THEN Fail
        ELSE LET j == SkipWs(t, r.next)
                 got == Append(acc, r.val)
             IN  IF IsTok(t, j, RB) THEN Ok(PyList(got), j + 1)
                 ELSE IF IsTok(t, j, COMMA) THEN ParseArray(t, SkipWs(t, j + 1), got)
                 ELSE Fail

\* the members of an object from token i on, up to its closing brace
ParseObject(t, i, acc) ==
    IF ~(i <= Len(t) /\ t[i].k = "str") THEN Fail
    ELSE LET c == SkipWs(t, i + 1)
         IN  IF ~IsTok(t, c, COLON) THEN Fail
             ELSE LET r == ParseValue(t, SkipWs(t, c + 1))
                  IN  IF ~r.ok THEN Fail
                      ELSE LET j == SkipWs(t, r.next)
                               got == DictSet(acc, t[i].v, r.val)
                           IN  IF IsTok(t, j, RC) THEN Ok(PyDict(got), j + 1)
                               ELSE IF IsTok(t, j, COMMA)
                                    THEN ParseObject(t, SkipWs(t, j + 1), got)
                               ELSE Fail

\* json.loads(raw): [ok, val]; ok = FALSE is json.JSONDecodeError
json_loads(raw) ==
    LET r == ParseValue(raw, SkipWs(raw, 1))
    IN  IF r.ok /\ SkipWs(raw, r.next) = Len(raw) + 1
        THEN [ok |-> TRUE, val |-> r.val]
        ELSE [ok |-> FALSE, val |-> PyNone]

----------------------------------------------------------------------------
(* json.dumps(obj, indent=4): items on lines of their own, ", " never used, *)
(* ": " between a key and its value, "[]" and "{}" for the empty ones.      *)

RECURSIVE Dumps(_)
RECURSIVE DumpsItems(_, _)
RECURSIVE DumpsMembers(_, _)

Dumps(v) ==
    IF v.type = "str" THEN <<StrTok(v.s)>>
    ELSE IF v.type = "int" THEN <<NumTok(v.s)>>
    ELSE IF v.type = "None" THEN <<NullTok>>
    ELSE IF v.type = "list"
         THEN IF v.items = <<>> THEN <<LB, RB>>
              ELSE <<LB, NL>> \o DumpsItems(v.items, 1) \o <<NL, RB>>
    ELSE IF v.items = <<>> THEN <<LC, RC>>
         ELSE <<LC, NL>> \o DumpsMembers(v.items, 1) \o <<NL, RC>>

DumpsItems(items, i) ==
    IF i = Len(items) THEN Dumps(items[i])
    ELSE Dumps(items[i]) \o <<COMMA, NL>> \o DumpsItems(items, i + 1)

DumpsMembers(items, i) ==
    LET one == <<StrTok(items[i].key), COLON, SP>> \o Dumps(items[i].val)
    IN  IF i = Len(items) THEN one
        ELSE one \o <<COMMA, NL>> \o DumpsMembers(items, i + 1)

json_dumps(obj) == Dumps(obj)

----------------------------------------------------------------------------
(* The file at storage_path, and pathlib's read_text and write_text.       *)
(* rf and wf are what the operating system does to this call's read and    *)
(* write: "ok", or a failure.                                              *)

NoFile == [exists |-> FALSE, text |-> <<>>]

FileOf(text) == [exists |-> TRUE, text |-> text]

ReadOutcomes == {"ok", "OSError"}

\* "open": the file could not be opened for writing and is untouched;
\* "write": it was opened, so truncated, and writing the data failed
WriteOutcomes == {"ok", "open", "write"}

Path_exists(f) == f.exists

\* Path.read_text(encoding="utf-8"): [exc, text]
read_text(f, rf) ==
    IF rf # "ok" \/ ~f.exists THEN [exc |-> "OSError", text |-> <<>>]
    ELSE IF \E i \in 1..Len(f.text) : f.text[i] = BadUtf8
         THEN [exc |-> "UnicodeDecodeError", text |-> <<>>]
    ELSE [exc |-> "none", text |-> f.text]

\* open(mode="w"): the file is created, or truncated to nothing
open_w(f) == FileOf(<<>>)

\* write(data) and close, on a file just opened: the data goes to the start of
\* the file, over what another writer has put there since the file was opened
write_data(f, data) ==
    FileOf(data \o SubSeq(f.text, Len(data) + 1, Len(f.text)))

\* Path.write_text(data, encoding="utf-8"): [exc, file], file the file afterwards
write_text(f, data, wf) ==
    IF wf = "ok" THEN [exc |-> "none", file |-> write_data(open_w(f), data)]
    ELSE IF wf = "open" THEN [exc |-> "OSError", file |-> f]
    ELSE [exc |-> "OSError", file |-> open_w(f)]

----------------------------------------------------------------------------
(* What the code does with the loaded value.                               *)

\* `for user in users`: [exc, items]. A list gives its items, a dict its keys,
\* a str its characters (each a str again: one stands for them, since only the
\* type of an element is ever used); None and int are not iterable.
Iterate(v) ==
    IF v.type = "list" THEN [exc |-> "none", items |-> v.items]
    ELSE IF v.type = "dict"
         THEN [exc |-> "none",
               items |-> [i \in 1..Len(v.items) |-> PyStr(v.items[i].key)]]
    ELSE IF v.type = "str"
         THEN [exc |-> "none", items |-> IF v.s = "" THEN <<>> ELSE <<PyStr(v.s)>>]
    ELSE [exc |-> "TypeError", items |-> <<>>]

\* user.get(key) on a dict: the value, or None when the key is absent
DictGet(d, key) ==
    IF \E i \in 1..Len(d.items) : d.items[i].key = key
    THEN d.items[CHOOSE i \in 1..Len(d.items) : d.items[i].key = key].val
    ELSE PyNone

\* the two conditions tested apart: some user has the name, some the password
AnyCredentialsMixed(items, i, username, password) ==
    IF \E k \in 1..Len(items) : items[k].type # "dict" THEN "AttributeError"
    ELSE IF /\ \E k \in 1..Len(items) :
                   DictGet(items[k], "username") = PyStr(username)
            /\ \E k \in 1..Len(items) :
                   DictGet(items[k], "password") = PyStr(password)
         THEN "True"
    ELSE "False"

\* any(user.get("username") == username and user.get("password") == password
\*     for user in users): "True", "False", or the exception of the first
\* element without a get method that is reached before a match
RECURSIVE AnyCredentials(_, _, _, _)
AnyCredentials(items, i, username, password) ==
    IF i > Len(items) THEN "False"
    ELSE IF items[i].type # "dict" THEN "AttributeError"
    ELSE IF /\ DictGet(items[i], "username") = PyStr(username)
            /\ DictGet(items[i], "password") = PyStr(password)
         THEN "True"
    ELSE AnyCredentials(items, i + 1, username, password)

\* the name looked up under the wrong key: user.get("password") == username
RECURSIVE AnyUsernameWrongKey(_, _, _)
AnyUsernameWrongKey(items, i, username) ==
    IF i > Len(items) THEN "False"
    ELSE IF items[i].type # "dict" THEN "AttributeError"
    ELSE IF DictGet(items[i], "password") = PyStr(username) THEN "True"
    ELSE AnyUsernameWrongKey(items, i + 1, username)

\* only the first user looked at
AnyUsernameFirstOnly(items, i, username) ==
    IF items = <<>> THEN "False"
    ELSE IF items[1].type # "dict" THEN "AttributeError"
    ELSE IF DictGet(items[1], "username") = PyStr(username) THEN "True"
    ELSE "False"

\* any(user.get("username") == username for user in users)
RECURSIVE AnyUsername(_, _, _)
AnyUsername(items, i, username) ==
    IF i > Len(items) THEN "False"
    ELSE IF items[i].type # "dict" THEN "AttributeError"
    ELSE IF DictGet(items[i], "username") = PyStr(username) THEN "True"
    ELSE AnyUsername(items, i + 1, username)

----------------------------------------------------------------------------
(* AuthManager (src/src/auth.py).                                          *)

\* _load_users(): [exc, val]; OSError and JSONDecodeError become []
_load_users(f, rf) ==
    LET r == read_text(f, rf)
    IN  IF r.exc = "OSError" THEN [exc |-> "none", val |-> PyList(<<>>)]
        ELSE IF r.exc # "none" THEN [exc |-> r.exc, val |-> PyNone]
        ELSE LET j == json_loads(r.text)
             IN  IF j.ok THEN [exc |-> "none", val |-> j.val]
                 ELSE [exc |-> "none", val |-> PyList(<<>>)]

\* the text built and never written
SaveUsersUnwritten(f, users, wf) ==
    [exc |-> "none", writes |-> 0, file |-> f]

\* no try around the write: its OSError leaves _save_users
SaveUsersUnguarded(f, users, wf) ==
    LET w == write_text(f, json_dumps(users), wf)
    IN  [exc |-> w.exc, writes |-> 1, file |-> w.file]

\* _save_users(users): [exc, writes, file]; one write_text, whose OSError is
\* caught and dropped
_save_users(f, users, wf) ==
    [exc |-> "none", writes |-> 1, file |-> write_text(f, json_dumps(users), wf).file]

\* the outcome of a call: its result (a return value or the exception raised),
\* how many times it read and wrote the file, and the file afterwards
Outcome(result, reads, writes, f) ==
    [result |-> result, reads |-> reads, writes |-> writes, file |-> f]

\* __init__: _ensure_store_exists()
_ensure_store_exists(f, rf, wf) ==
    IF ~Path_exists(f)
    THEN LET w == write_text(f, <<LB, RB>>, wf)
         IN  Outcome(IF w.exc = "none" THEN "None" ELSE w.exc, 0, 1, w.file)
    ELSE LET r == read_text(f, rf)
         IN  IF r.exc # "none" THEN Outcome(r.exc, 1, 0, f)
             ELSE IF strip(r.text) = <<>>
                  THEN LET w == write_text(f, <<LB, RB>>, wf)
                       IN  Outcome(IF w.exc = "none" THEN "None" ELSE w.exc,
                                   1, 1, w.file)
             ELSE Outcome("None", 1, 0, f)

\* the users loaded before the arguments are looked at
AuthenticateLoadFirst(f, username, password, rf) ==
    LET users == _load_users(f, rf)
    IN  IF users.exc # "none" THEN Outcome(users.exc, 1, 0, f)
        ELSE IF username = "" \/ password = "" THEN Outcome("False", 1, 0, f)
        ELSE LET it == Iterate(users.val)
             IN  IF it.exc # "none" THEN Outcome(it.exc, 1, 0, f)
                 ELSE Outcome(AnyCredentials(it.items, 1, username, password),
                              1, 0, f)

authenticate(f, username, password, rf) ==
    IF username = "" \/ password = "" THEN Outcome("False", 0, 0, f)
    ELSE LET users == _load_users(f, rf)
         IN  IF users.exc # "none" THEN Outcome(users.exc, 1, 0, f)
             ELSE LET it == Iterate(users.val)
                  IN  IF it.exc # "none" THEN Outcome(it.exc, 1, 0, f)
                      ELSE Outcome(AnyCredentials(it.items, 1, username, password),
                                   1, 0, f)

\* the new record put in front of the loaded ones
RegisterPrepends(f, username, password, rf, wf) ==
    IF username = "" \/ password = "" THEN Outcome("False", 0, 0, f)
    ELSE LET users == _load_users(f, rf)
         IN  IF users.exc # "none" THEN Outcome(users.exc, 1, 0, f)
             ELSE LET it == Iterate(users.val)
                      found == AnyUsername(it.items, 1, username)
                  IN  IF it.exc # "none" THEN Outcome(it.exc, 1, 0, f)
                      ELSE IF found = "True" THEN Outcome("False", 1, 0, f)
                      ELSE IF found # "False" THEN Outcome(found, 1, 0, f)
                      ELSE IF users.val.type # "list"
                           THEN Outcome("AttributeError", 1, 0, f)
                      ELSE LET grown == PyList(<<UserRecord(username, password)>>
                                               \o users.val.items)
                               s == _save_users(f, grown, wf)
                           IN  Outcome(IF s.exc = "none" THEN "True" ELSE s.exc,
                                       1, s.writes, s.file)

register(f, username, password, rf, wf) ==
    IF username = "" \/ password = "" THEN Outcome("False", 0, 0, f)
    ELSE LET users == _load_users(f, rf)
         IN  IF users.exc # "none" THEN Outcome(users.exc, 1, 0, f)
             ELSE LET it == Iterate(users.val)
                      found == AnyUsername(it.items, 1, username)
                  IN  IF it.exc # "none" THEN Outcome(it.exc, 1, 0, f)
                      ELSE IF found = "True" THEN Outcome("False", 1, 0, f)
                      ELSE IF found # "False" THEN Outcome(found, 1, 0, f)
                      ELSE IF users.val.type # "list"
                           THEN Outcome("AttributeError", 1, 0, f)
                      ELSE LET grown == PyList(Append(users.val.items,
                                                      UserRecord(username, password)))
                               s == _save_users(f, grown, wf)
                           IN  Outcome(IF s.exc = "none" THEN "True" ELSE s.exc,
                                       1, s.writes, s.file)

----------------------------------------------------------------------------
(* The calls of one process on one AuthManager.                            *)

\* what `last` holds of a call: its arguments, its result, how often it read
\* and wrote the file, the file before it, and what became of its read and
\* its write ("ok" for one it never made)
Call(op, username, password, o, before, rf, wf) ==
    [op |-> op, username |-> username, password |-> password,
     result |-> o.result, reads |-> o.reads, writes |-> o.writes,
     before |-> before,
     rf |-> IF o.reads = 0 THEN "ok" ELSE rf,
     wf |-> IF o.writes = 0 THEN "ok" ELSE wf]

NoCall ==
    [op |-> "none", username |-> "", password |-> "", result |-> "None",
     reads |-> 0, writes |-> 0, before |-> NoFile, rf |-> "ok", wf |-> "ok"]

\* what `preceding` holds of a register call
Brief(c) ==
    [op |-> c.op, username |-> c.username, password |-> c.password,
     result |-> c.result, rf |-> c.rf, wf |-> c.wf]

NoProcs == <<>>

NoTodo == [phase |-> "none"]

\* no App yet: the fields of an App, where its run is, and of its last step
\* the handler, the choice and the entries as trimmed, the username line as
\* typed, the input() calls and AuthManager calls made, the message printed
\* and the exception that left run
NoApp ==
    [pc |-> "absent", running |-> FALSE, current_user |-> PyNone,
     choice |-> "", handler |-> "none",
     username |-> "", password |-> "", confirm_password |-> "", entered |-> <<>>,
     reads |-> 0, calls |-> 0, message |-> "none", exc |-> "none"]

\* AuthManager(storage_path): a manager is constructed over the file as it is
Construct(rf, wf) ==
    LET o == _ensure_store_exists(file, rf, wf)
    IN  /\ file' = o.file
        /\ mgr' = IF o.result = "None" THEN "ready" ELSE "raised"
        /\ last' = Call("__init__", "", "", o, file, rf, wf)
        /\ preceding' = Brief(NoCall)
        /\ UNCHANGED <<procs, todo, app>>

Register(username, password, rf, wf) ==
    LET o == register(file, username, password, rf, wf)
    IN  /\ mgr = "ready"
        /\ file' = o.file
        /\ last' = Call("register", username, password, o, file, rf, wf)
        /\ preceding' = Brief(NoCall)
        /\ UNCHANGED <<mgr, procs, todo, app>>

Authenticate(username, password, rf) ==
    LET o == authenticate(file, username, password, rf)
    IN  /\ mgr = "ready"
        /\ file' = o.file
        /\ last' = Call("authenticate", username, password, o, file, rf, "ok")
        /\ preceding' = IF last.op = "register" /\ last.username = username
                        THEN Brief(last)
                        ELSE Brief(NoCall)
        /\ UNCHANGED <<mgr, procs, todo, app>>

----------------------------------------------------------------------------
(* What the file at storage_path may hold before the program first runs.   *)

UsersFile(users) == FileOf(json_dumps(PyList(users)))

\* absent, blank, or a store of this program: an array of user records with
\* distinct usernames, as json.dumps prints it or written by hand without
\* the line breaks
StoreFiles ==
    { NoFile,
      FileOf(<<>>),
      FileOf(<<SP, NL>>),
      UsersFile(<<>>),
      UsersFile(<<UserRecord(NamePool[1], PasswordPool[2])>>),
      FileOf(<<LB, LC, StrTok("username"), COLON, StrTok(NamePool[2]), COMMA,
               StrTok("password"), COLON, StrTok(PasswordPool[1]), RC, RB, NL>>) }

\* anything else a file can hold: text that is not JSON, JSON that is not an
\* array, an array whose elements are not all user records, bytes that are
\* not UTF-8
ForeignFiles ==
    { FileOf(<<LB>>),
      FileOf(<<Junk>>),
      FileOf(<<LC, RC>>),
      FileOf(<<NullTok>>),
      FileOf(<<LB, NumTok("1"), RB>>),
      FileOf(json_dumps(PyList(<<UserRecord(NamePool[1], PasswordPool[1]),
                                 PyInt("1")>>))),
      FileOf(json_dumps(PyDict(<<Item(NamePool[1], PyStr(PasswordPool[1]))>>))),
      FileOf(<<BadUtf8>>) }

InitCommon ==
    /\ mgr = "absent"
    /\ last = NoCall
    /\ preceding = Brief(NoCall)
    /\ procs = NoProcs
    /\ todo = NoTodo
    /\ app = NoApp

----------------------------------------------------------------------------
(* Spec: one process, a file system that does not fail, a file that is     *)
(* absent, blank or a store.                                               *)

Init == file \in StoreFiles /\ InitCommon

Next ==
    \/ Construct("ok", "ok")
    \/ \E username \in Usernames, password \in Passwords :
           Register(username, password, "ok", "ok")
    \/ \E username \in Usernames, password \in Passwords :
           Authenticate(username, password, "ok")

Spec == Init /\ [][Next]_vars

(* SpecEnv: one process, with reads and writes that may fail and a file    *)
(* that may hold anything.                                                 *)

InitEnv == file \in StoreFiles \cup ForeignFiles /\ InitCommon

NextEnv ==
    \/ \E rf \in ReadOutcomes, wf \in WriteOutcomes : Construct(rf, wf)
    \/ \E username \in Usernames, password \in Passwords,
          rf \in ReadOutcomes, wf \in WriteOutcomes :
           Register(username, password, rf, wf)
    \/ \E username \in Usernames, password \in Passwords, rf \in ReadOutcomes :
           Authenticate(username, password, rf)

SpecEnv == InitEnv /\ [][NextEnv]_vars

----------------------------------------------------------------------------
(* SpecConc: two processes, each with its own AuthManager over the same    *)
(* file, each calling register once and then authenticate. A process's    *)
(* register runs in steps: the arguments are tested, the users are loaded, *)
(* the username is looked up and the record appended, the file is opened   *)
(* for writing, the data is written. Steps of the two processes interleave *)
(* freely: nothing locks the file.                                         *)

Procs == {"p1", "p2"}

Proc(pc, username, password, users, seen, after, result, auth) ==
    [pc |-> pc, username |-> username, password |-> password,
     users |-> users,     \* the local `users`
     seen |-> seen,       \* the file as _load_users read it
     after |-> after,     \* the processes whose write was done when this one opened
     result |-> result,   \* what register returned
     auth |-> auth]       \* what authenticate returned

IdleProc == Proc("idle", "", "", PyNone, NoFile, {}, "None", "None")

Finished(p) == procs[p].pc \in {"returned", "checked"}

\* register(username, password) is called: line 32
RegisterStart(p, username, password) ==
    /\ procs[p].pc = "idle"
    /\ procs' = [procs EXCEPT ![p] =
           IF username = "" \/ password = ""
           THEN Proc("returned", username, password, PyNone, NoFile, {}, "False", "None")
           ELSE Proc("load", username, password, PyNone, NoFile, {}, "None", "None")]
    /\ UNCHANGED <<file, mgr, last, preceding, todo, app>>

\* users = self._load_users(): line 35
RegisterLoad(p) ==
    /\ procs[p].pc = "load"
    /\ procs' = [procs EXCEPT ![p].pc = "lookup",
                              ![p].users = _load_users(file, "ok").val,
                              ![p].seen = file]
    /\ UNCHANGED <<file, mgr, last, preceding, todo, app>>

\* the lookup and the append: lines 38 to 42
RegisterLookup(p) ==
    LET me == procs[p]
        found == AnyUsername(Iterate(me.users).items, 1, me.username)
    IN  /\ me.pc = "lookup"
        /\ procs' = [procs EXCEPT ![p] =
               IF found = "False" /\ me.users.type = "list"
               THEN [me EXCEPT !.pc = "open",
                               !.users = PyList(Append(me.users.items,
                                             UserRecord(me.username, me.password)))]
               ELSE [me EXCEPT !.pc = "returned",
                               !.result = IF found = "True" THEN "False"
                                          ELSE "AttributeError"]]
        /\ UNCHANGED <<file, mgr, last, preceding, todo, app>>

\* _save_users: write_text opens the file
RegisterOpen(p) ==
    /\ procs[p].pc = "open"
    /\ file' = open_w(file)
    /\ procs' = [procs EXCEPT ![p].pc = "write",
                              ![p].after = {q \in Procs : procs[q].result = "True"}]
    /\ UNCHANGED <<mgr, last, preceding, todo, app>>

\* _save_users: write_text writes the data and closes; register returns True
RegisterWrite(p) ==
    LET o == Outcome("True", 1, 1, write_data(file, json_dumps(procs[p].users)))
    IN  /\ procs[p].pc = "write"
        /\ file' = o.file
        /\ procs' = [procs EXCEPT ![p].pc = "returned", ![p].result = "True"]
        /\ last' = Call("register", procs[p].username, procs[p].password, o,
                        procs[p].seen, "ok", "ok")
        /\ UNCHANGED <<mgr, preceding, todo, app>>

\* once both registrations have returned, a process authenticates with the
\* pair it registered
AuthenticateOwn(p) ==
    /\ procs[p].pc = "returned"
    /\ \A q \in Procs : Finished(q)
    /\ procs' = [procs EXCEPT
           ![p].pc = "checked",
           ![p].auth = authenticate(file, procs[p].username,
                                    procs[p].password, "ok").result]
    /\ UNCHANGED <<file, mgr, last, preceding, todo, app>>

\* the store at the start: empty, or holding one user
InitConc ==
    /\ file \in {UsersFile(<<>>),
                 UsersFile(<<UserRecord(NamePool[1], PasswordPool[2])>>)}
    /\ mgr = "ready"
    /\ last = NoCall
    /\ preceding = Brief(NoCall)
    /\ procs = [p \in Procs |-> IdleProc]
    /\ todo = NoTodo
    /\ app = NoApp

NextConc ==
    \E p \in Procs :
        \/ \E username \in Usernames, password \in Passwords :
               RegisterStart(p, username, password)
        \/ RegisterLoad(p)
        \/ RegisterLookup(p)
        \/ RegisterOpen(p)
        \/ RegisterWrite(p)
        \/ AuthenticateOwn(p)

SpecConc == InitConc /\ [][NextConc]_vars

----------------------------------------------------------------------------
(* TodoItem (src/src/models.py): the enums, datetime's ISO text, and the   *)
(* conversion to and from a dictionary.                                    *)

\* a member of an Enum class, and the members with their values
Member(enum, name) == [enum |-> enum, name |-> name]

Priority ==
    { [member |-> Member("Priority", "HIGH"), value |-> "HIGH"],
      [member |-> Member("Priority", "MID"), value |-> "MID"],
      [member |-> Member("Priority", "LOW"), value |-> "LOW"] }

Status ==
    { [member |-> Member("Status", "PENDING"), value |-> "PENDING"],
      [member |-> Member("Status", "COMPLETED"), value |-> "COMPLETED"] }

\* member.value
EnumValue(enum, member) == (CHOOSE e \in enum : e.member = member).value

\* Enum(value): [exc, member]; ValueError when no member has the value
EnumLookup(enum, value) ==
    IF \E e \in enum : e.value = value
    THEN [exc |-> "none", member |-> (CHOOSE e \in enum : e.value = value).member]
    ELSE [exc |-> "ValueError", member |-> Member("", "")]

\* str(x) of a value a dictionary holds
str(v) ==
    IF v.type \in {"str", "int"} THEN v.s
    ELSE IF v.type = "None" THEN "None"
    ELSE "<object>"

\* tzinfo: None, or a fixed-offset timezone of so many minutes from UTC
Naive == [aware |-> FALSE, offset |-> 0]

Offset(minutes) == [aware |-> TRUE, offset |-> minutes]

\* a datetime; fold is the PEP 495 disambiguation bit
DateTime(year, month, day, hour, minute, second, microsecond, tz, fold) ==
    [year |-> year, month |-> month, day |-> day, hour |-> hour,
     minute |-> minute, second |-> second, microsecond |-> microsecond,
     tz |-> tz, fold |-> fold]

\* the pieces of ISO text: a number of w digits, or a single character
Digits(n, w) == [k |-> "digits", n |-> n, w |-> w, c |-> ""]

Char(c) == [k |-> "char", n |-> 0, w |-> 1, c |-> c]

Abs(n) == IF n < 0 THEN -n ELSE n

\* datetime.isoformat(): YYYY-MM-DDTHH:MM:SS, then .ffffff when the
\* microsecond is not 0, then +HH:MM or -HH:MM when the datetime is aware
isoformat(d) ==
    <<Digits(d.year, 4), Char("-"), Digits(d.month, 2), Char("-"), Digits(d.day, 2),
      Char("T"), Digits(d.hour, 2), Char(":"), Digits(d.minute, 2), Char(":"),
      Digits(d.second, 2)>>
    \o (IF d.microsecond = 0 THEN <<>> ELSE <<Char("."), Digits(d.microsecond, 6)>>)
    \o (IF ~d.tz.aware THEN <<>>
        ELSE <<Char(IF d.tz.offset < 0 THEN "-" ELSE "+"),
               Digits(Abs(d.tz.offset) \div 60, 2),
               Char(":"), Digits(Abs(d.tz.offset) % 60, 2)>>)

IsDigits(t, i, w) == i <= Len(t) /\ t[i].k = "digits" /\ t[i].w = w

IsChar(t, i, c) == i <= Len(t) /\ t[i] = Char(c)

NoDateTime == DateTime(0, 0, 0, 0, 0, 0, 0, Naive, 0)

\* the UTC offset at token i: [ok, tz, next]; no text left is a naive datetime
ParseOffset(t, i) ==
    IF i > Len(t) THEN [ok |-> TRUE, tz |-> Naive, next |-> i]
    ELSE IF /\ (IsChar(t, i, "+") \/ IsChar(t, i, "-"))
            /\ IsDigits(t, i + 1, 2) /\ IsChar(t, i + 2, ":") /\ IsDigits(t, i + 3, 2)
            /\ t[i + 1].n < 24 /\ t[i + 3].n < 60
         THEN [ok |-> TRUE,
               tz |-> Offset((IF t[i].c = "-" THEN -1 ELSE 1)
                                 * (t[i + 1].n * 60 + t[i + 3].n)),
               next |-> i + 4]
    ELSE [ok |-> FALSE, tz |-> Naive, next |-> i]

\* datetime.fromisoformat(text): [exc, dt]; the date, any one separator, the
\* time with an optional fraction of 3 or 6 digits, an optional UTC offset
fromisoformat(t) ==
    IF ~( /\ IsDigits(t, 1, 4) /\ IsChar(t, 2, "-") /\ IsDigits(t, 3, 2)
          /\ IsChar(t, 4, "-") /\ IsDigits(t, 5, 2)
          /\ 6 <= Len(t) /\ t[6].k = "char"
          /\ IsDigits(t, 7, 2) /\ IsChar(t, 8, ":") /\ IsDigits(t, 9, 2)
          /\ IsChar(t, 10, ":") /\ IsDigits(t, 11, 2)
          /\ t[3].n \in 1..12 /\ t[5].n \in 1..31
          /\ t[7].n < 24 /\ t[9].n < 60 /\ t[11].n < 60 )
    THEN [exc |-> "ValueError", dt |-> NoDateTime]
    ELSE LET frac == IsChar(t, 12, ".") /\ (IsDigits(t, 13, 6) \/ IsDigits(t, 13, 3))
             us == IF ~frac THEN 0
                   ELSE IF t[13].w = 6 THEN t[13].n ELSE t[13].n * 1000
             off == ParseOffset(t, IF frac THEN 14 ELSE 12)
         IN  IF off.ok /\ off.next = Len(t) + 1
             THEN [exc |-> "none",
                   dt |-> DateTime(t[1].n, t[3].n, t[5].n, t[7].n, t[9].n, t[11].n,
                                   us, off.tz, 0)]
             ELSE [exc |-> "ValueError", dt |-> NoDateTime]

\* a == b on datetimes: two naive ones are equal when their fields are (fold
\* is not compared), two aware ones when they are the same instant, a naive
\* and an aware one never
DateTimeEq(a, b) ==
    IF ~a.tz.aware /\ ~b.tz.aware
    THEN /\ a.year = b.year /\ a.month = b.month /\ a.day = b.day
         /\ a.hour = b.hour /\ a.minute = b.minute /\ a.second = b.second
         /\ a.microsecond = b.microsecond
    ELSE IF a.tz.aware /\ b.tz.aware
    THEN /\ a.year = b.year /\ a.month = b.month
         /\ (a.day * 24 + a.hour) * 60 + a.minute - a.tz.offset
                = (b.day * 24 + b.hour) * 60 + b.minute - b.tz.offset
         /\ a.second = b.second /\ a.microsecond = b.microsecond
    ELSE FALSE

\* the text of a timestamp as a value of the dictionary
IsoStr(text) == [type |-> "str", s |-> text]

TodoItem(id, title, details, priority, status, owner, created_at, updated_at) ==
    [id |-> id, title |-> title, details |-> details, priority |-> priority,
     status |-> status, owner |-> owner,
     created_at |-> created_at, updated_at |-> updated_at]

\* the dataclass's ==: field by field
TodoItemEq(a, b) ==
    /\ a.id = b.id /\ a.title = b.title /\ a.details = b.details
    /\ a.priority = b.priority /\ a.status = b.status /\ a.owner = b.owner
    /\ DateTimeEq(a.created_at, b.created_at)
    /\ DateTimeEq(a.updated_at, b.updated_at)

\* the value of the member's name, not of the member
ToDictStatusName(item) ==
    PyDict(<<Item("id", PyStr(item.id)),
             Item("title", PyStr(item.title)),
             Item("details", PyStr(item.details)),
             Item("priority", PyStr(EnumValue(Priority, item.priority))),
             Item("status", PyStr("Status." \o item.status.name)),
             Item("owner", PyStr(item.owner)),
             Item("created_at", IsoStr(isoformat(item.created_at))),
             Item("updated_at", IsoStr(isoformat(item.updated_at)))>>)

to_dict(item) ==
    PyDict(<<Item("id", PyStr(item.id)),
             Item("title", PyStr(item.title)),
             Item("details", PyStr(item.details)),
             Item("priority", PyStr(EnumValue(Priority, item.priority))),
             Item("status", PyStr(EnumValue(Status, item.status))),
             Item("owner", PyStr(item.owner)),
             Item("created_at", IsoStr(isoformat(item.created_at))),
             Item("updated_at", IsoStr(isoformat(item.updated_at)))>>)

HasKey(d, key) == \E i \in 1..Len(d.items) : d.items[i].key = key

NoItem ==
    TodoItem("", "", "", Member("", ""), Member("", ""), "", NoDateTime, NoDateTime)

\* from_dict(data): [exc, item]. data[key] of a missing key is a KeyError;
\* data.get("details", "") is "" for a missing key
from_dict(data) ==
    IF \E key \in {"id", "title", "priority", "status", "owner",
                   "created_at", "updated_at"} : ~HasKey(data, key)
    THEN [exc |-> "KeyError", item |-> NoItem]
    ELSE LET priority == EnumLookup(Priority, str(DictGet(data, "priority")))
             status == EnumLookup(Status, str(DictGet(data, "status")))
             created == fromisoformat(str(DictGet(data, "created_at")))
             updated == fromisoformat(str(DictGet(data, "updated_at")))
         IN  IF \E r \in {priority, status} : r.exc # "none"
             THEN [exc |-> "ValueError", item |-> NoItem]
             ELSE IF created.exc # "none" \/ updated.exc # "none"
             THEN [exc |-> "ValueError", item |-> NoItem]
             ELSE [exc |-> "none",
                   item |-> TodoItem(str(DictGet(data, "id")),
                                     str(DictGet(data, "title")),
                                     IF HasKey(data, "details")
                                     THEN str(DictGet(data, "details")) ELSE "",
                                     priority.member, status.member,
                                     str(DictGet(data, "owner")),
                                     created.dt, updated.dt)]

----------------------------------------------------------------------------
(* SpecTodo: an item is converted to a dictionary, read back from it, and  *)
(* converted again.                                                        *)

\* the timestamps the items carry: with and without microseconds, naive and
\* with UTC offsets on both sides of zero, with fold clear and set
Stamps ==
    { DateTime(2026, 1, 13, 10, 0, s, us, tz, fold) :
          s \in {0, 59}, us \in {0, 5}, tz \in {Naive, Offset(0)}, fold \in {0} }
    \cup { DateTime(2025, 12, 31, 23, 59, 0, 123456, Naive, 1),
           DateTime(2026, 1, 13, 10, 30, 0, 0, Offset(330), 0),
           DateTime(2026, 1, 13, 10, 30, 0, 999999, Offset(-300), 0) }

Items ==
    { TodoItem(id, "Test Task", details, p.member, st.member, owner, c, u) :
          id \in {"uuid-1"}, details \in {"", "This is a test task"},
          p \in Priority, st \in Status, owner \in {"alice"},
          c \in Stamps, u \in Stamps }

Todo(phase, item, data, restored, again) ==
    [phase |-> phase, item |-> item, data |-> data,
     restored |-> restored, again |-> again]

\* item.to_dict()
ToDict ==
    /\ todo.phase = "item"
    /\ todo' = [todo EXCEPT !.phase = "dict", !.data = to_dict(todo.item)]
    /\ UNCHANGED <<file, mgr, last, preceding, procs, app>>

\* TodoItem.from_dict(data)
FromDict ==
    /\ todo.phase = "dict"
    /\ todo' = [todo EXCEPT !.phase = "restored", !.restored = from_dict(todo.data)]
    /\ UNCHANGED <<file, mgr, last, preceding, procs, app>>

\* restored.to_dict()
ToDictAgain ==
    /\ todo.phase = "restored"
    /\ todo.restored.exc = "none"
    /\ todo' = [todo EXCEPT !.phase = "again", !.again = to_dict(todo.restored.item)]
    /\ UNCHANGED <<file, mgr, last, preceding, procs, app>>

InitTodo ==
    /\ file = NoFile
    /\ mgr = "absent"
    /\ last = NoCall
    /\ preceding = Brief(NoCall)
    /\ procs = NoProcs
    /\ app = NoApp
    /\ \E item \in Items :
           todo = Todo("item", item, PyDict(<<>>), [exc |-> "none", item |-> NoItem],
                       PyDict(<<>>))

NextTodo == ToDict \/ FromDict \/ ToDictAgain

SpecTodo == InitTodo /\ [][NextTodo]_vars

----------------------------------------------------------------------------
(* App (src/src/main.py): the menu loop over an AuthManager. A line of     *)
(* input is a sequence of words and blanks, and the str it stands for is   *)
(* their concatenation.                                                    *)

Word(s) == Tok("chars", s)

\* the str of a sequence of tokens
RECURSIVE Text(_)
Text(t) == IF t = <<>> THEN "" ELSE Head(t).v \o Text(Tail(t))

\* what a call of input() comes to: a line, or the exception it raises at the
\* end of the input or on an interrupt
Line(t) == [exc |-> "none", line |-> t]

InputRaises(e) == [exc |-> e, line |-> <<>>]

InputExceptions == {InputRaises("EOFError"), InputRaises("KeyboardInterrupt")}

\* the lines typed at the menu, at "Username: " and at the password prompts
ChoiceLines ==
    { <<>>, <<SP>>, <<Word("1")>>, <<Word("2")>>, <<Word("3")>>,
      <<SP, Word("1")>>, <<SP, Word("3"), SP>>, <<Word("4")>>,
      <<Word("1"), SP, Word("3")>>, <<Word("exit")>> }

UsernameLines ==
    { <<>>, <<SP, Word(NamePool[1]), SP>> }
        \cup { <<Word(NamePool[i])>> : i \in 1..MaxNames }

PasswordLines ==
    { <<SP>>, <<Word(PasswordPool[1]), SP>> }
        \cup { <<Word(PasswordPool[i])>> : i \in DOMAIN PasswordPool }

ChoiceInputs == {Line(t) : t \in ChoiceLines} \cup InputExceptions

UsernameInputs == {Line(t) : t \in UsernameLines} \cup InputExceptions

PasswordInputs == {Line(t) : t \in PasswordLines} \cup InputExceptions

\* input(prompt).strip()
input_strip(in) == Text(strip(in.line))

\* self._actions: the choices that have a handler
_actions == {"1", "2", "3"}

\* an exception leaves run: the fields stay, the step's reads and calls are kept
Leaves(a, e, handler, reads, calls) ==
    [a EXCEPT !.pc = "raised", !.exc = e, !.handler = handler,
              !.reads = reads, !.calls = calls, !.message = "none"]

\* App(): the fields are set and an AuthManager is constructed over the file
AppInit(rf, wf) ==
    LET o == _ensure_store_exists(file, rf, wf)
    IN  /\ app.pc = "absent"
        /\ mgr = "absent"
        /\ file' = o.file
        /\ mgr' = IF o.result = "None" THEN "ready" ELSE "raised"
        /\ last' = Call("__init__", "", "", o, file, rf, wf)
        /\ app' = IF o.result = "None"
                  THEN [NoApp EXCEPT !.pc = "made", !.running = TRUE,
                                     !.current_user = PyNone]
                  ELSE [NoApp EXCEPT !.pc = "raised", !.exc = o.result]
        /\ UNCHANGED <<preceding, procs, todo>>

\* run(): the welcome line, up to the first test of the loop
Run ==
    /\ app.pc = "made"
    /\ app' = [app EXCEPT !.pc = "loop", !.message = "welcome"]
    /\ UNCHANGED <<file, mgr, last, preceding, procs, todo>>

\* the loop's body up to _dispatch: the menu, and the choice read and trimmed;
\* `last` is from here on the call this turn of the loop makes
ReadChoice(in) ==
    /\ app.pc = "loop"
    /\ app.running
    /\ app' = IF in.exc # "none"
              THEN [Leaves(app, in.exc, "none", 1, 0) EXCEPT
                        !.choice = "", !.username = "", !.password = "",
                        !.confirm_password = "", !.entered = <<>>]
              ELSE [app EXCEPT !.pc = "dispatch", !.choice = input_strip(in),
                               !.handler = "none", !.username = "",
                               !.password = "", !.confirm_password = "",
                               !.entered = <<>>, !.reads = 1, !.calls = 0,
                               !.message = "menu"]
    /\ last' = NoCall
    /\ UNCHANGED <<file, mgr, preceding, procs, todo>>

\* _dispatch(choice) with no action for the choice
DispatchInvalid ==
    /\ app.pc = "dispatch"
    /\ app.choice \notin _actions
    /\ app' = [app EXCEPT !.pc = "loop", !.handler = "invalid", !.reads = 0,
                          !.message = "invalid_selection"]
    /\ UNCHANGED <<file, mgr, last, preceding, procs, todo>>

\* the login handler that sets the user whatever authenticate returns
HandleLoginAlways(a, f, in1, in2, rf) ==
    IF in1.exc # "none"
    THEN [app |-> Leaves(a, in1.exc, "login", 1, 0), o |-> Outcome("None", 0, 0, f)]
    ELSE IF in2.exc # "none"
    THEN [app |-> [Leaves(a, in2.exc, "login", 2, 0) EXCEPT
                       !.username = input_strip(in1), !.entered = in1.line],
          o |-> Outcome("None", 0, 0, f)]
    ELSE LET username == input_strip(in1)
             password == input_strip(in2)
             o == authenticate(f, username, password, rf)
             b == [a EXCEPT !.handler = "login", !.username = username,
                            !.password = password, !.entered = in1.line,
                            !.reads = 2, !.calls = 1]
         IN  [app |-> IF o.result \in {"True", "False"}
                      THEN [b EXCEPT !.pc = "loop", !.current_user = PyStr(username),
                                     !.message = "welcome_back"]
                      ELSE [b EXCEPT !.pc = "raised", !.exc = o.result,
                                     !.message = "none"],
              o |-> o]

\* _handle_login(): [app, o], the App afterwards and the outcome of the call
\* of authenticate (no reads and no writes when it was not called)
_handle_login(a, f, in1, in2, rf) ==
    IF in1.exc # "none"
    THEN [app |-> Leaves(a, in1.exc, "login", 1, 0), o |-> Outcome("None", 0, 0, f)]
    ELSE IF in2.exc # "none"
    THEN [app |-> [Leaves(a, in2.exc, "login", 2, 0) EXCEPT
                       !.username = input_strip(in1), !.entered = in1.line],
          o |-> Outcome("None", 0, 0, f)]
    ELSE LET username == input_strip(in1)
             password == input_strip(in2)
             o == authenticate(f, username, password, rf)
             b == [a EXCEPT !.handler = "login", !.username = username,
                            !.password = password, !.entered = in1.line,
                            !.reads = 2, !.calls = 1]
         IN  [app |-> IF o.result = "True"
                      THEN [b EXCEPT !.pc = "loop", !.current_user = PyStr(username),
                                     !.message = "welcome_back"]
                      ELSE IF o.result = "False"
                      THEN [b EXCEPT !.pc = "loop", !.message = "invalid_login"]
                      ELSE [b EXCEPT !.pc = "raised", !.exc = o.result,
                                     !.message = "none"],
              o |-> o]

\* _dispatch("1"): _handle_login()
HandleLogin(in1, in2, rf) ==
    /\ app.pc = "dispatch"
    /\ app.choice = "1"
    /\ \E h \in {_handle_login(app, file, in1, in2, rf)} :
           /\ app' = h.app
           /\ file' = h.o.file
           /\ last' = IF h.app.calls = 1
                      THEN Call("authenticate", h.app.username, h.app.password,
                                h.o, file, rf, "ok")
                      ELSE last
    /\ UNCHANGED <<mgr, preceding, procs, todo>>

\* the sign-up handler without the comparison of the two password entries
HandleSignUpNoConfirm(a, f, in1, in2, in3, rf, wf) ==
    IF in1.exc # "none"
    THEN [app |-> Leaves(a, in1.exc, "sign_up", 1, 0), o |-> Outcome("None", 0, 0, f)]
    ELSE IF in2.exc # "none"
    THEN [app |-> [Leaves(a, in2.exc, "sign_up", 2, 0) EXCEPT
                       !.username = input_strip(in1), !.entered = in1.line],
          o |-> Outcome("None", 0, 0, f)]
    ELSE IF in3.exc # "none"
    THEN [app |-> [Leaves(a, in3.exc, "sign_up", 3, 0) EXCEPT
                       !.username = input_strip(in1), !.entered = in1.line,
                       !.password = input_strip(in2)],
          o |-> Outcome("None", 0, 0, f)]
    ELSE LET username == input_strip(in1)
             password == input_strip(in2)
             confirm_password == input_strip(in3)
             b == [a EXCEPT !.handler = "sign_up", !.username = username,
                            !.password = password,
                            !.confirm_password = confirm_password,
                            !.entered = in1.line, !.reads = 3]
         IN  IF username = "" \/ password = ""
             THEN [app |-> [b EXCEPT !.pc = "loop", !.message = "empty"],
                   o |-> Outcome("None", 0, 0, f)]
             ELSE LET o == register(f, username, password, rf, wf)
                      c == [b EXCEPT !.calls = 1]
                  IN  [app |-> IF o.result = "True"
                               THEN [c EXCEPT !.pc = "loop", !.message = "created"]
                               ELSE IF o.result = "False"
                               THEN [c EXCEPT !.pc = "loop", !.message = "exists"]
                               ELSE [c EXCEPT !.pc = "raised", !.exc = o.result,
                                              !.message = "none"],
                       o |-> o]

\* _handle_sign_up(): [app, o], the App afterwards and the outcome of the call
\* of register (no reads and no writes when it was not called)
_handle_sign_up(a, f, in1, in2, in3, rf, wf) ==
    IF in1.exc # "none"
    THEN [app |-> Leaves(a, in1.exc, "sign_up", 1, 0), o |-> Outcome("None", 0, 0, f)]
    ELSE IF in2.exc # "none"
    THEN [app |-> [Leaves(a, in2.exc, "sign_up", 2, 0) EXCEPT
                       !.username = input_strip(in1), !.entered = in1.line],
          o |-> Outcome("None", 0, 0, f)]
    ELSE IF in3.exc # "none"
    THEN [app |-> [Leaves(a, in3.exc, "sign_up", 3, 0) EXCEPT
                       !.username = input_strip(in1), !.entered = in1.line,
                       !.password = input_strip(in2)],
          o |-> Outcome("None", 0, 0, f)]
    ELSE LET username == input_strip(in1)
             password == input_strip(in2)
             confirm_password == input_strip(in3)
             b == [a EXCEPT !.handler = "sign_up", !.username = username,
                            !.password = password,
                            !.confirm_password = confirm_password,
                            !.entered = in1.line, !.reads = 3]
         IN  IF username = "" \/ password = ""
             THEN [app |-> [b EXCEPT !.pc = "loop", !.message = "empty"],
                   o |-> Outcome("None", 0, 0, f)]
             ELSE IF password # confirm_password
             THEN [app |-> [b EXCEPT !.pc = "loop", !.message = "mismatch"],
                   o |-> Outcome("None", 0, 0, f)]
             ELSE LET o == register(f, username, password, rf, wf)
                      c == [b EXCEPT !.calls = 1]
                  IN  [app |-> IF o.result = "True"
                               THEN [c EXCEPT !.pc = "loop", !.message = "created"]
                               ELSE IF o.result = "False"
                               THEN [c EXCEPT !.pc = "loop", !.message = "exists"]
                               ELSE [c EXCEPT !.pc = "raised", !.exc = o.result,
                                              !.message = "none"],
                       o |-> o]

\* _dispatch("2"): _handle_sign_up()
HandleSignUp(in1, in2, in3, rf, wf) ==
    /\ app.pc = "dispatch"
    /\ app.choice = "2"
    /\ \E h \in {_handle_sign_up(app, file, in1, in2, in3, rf, wf)} :
           /\ app' = h.app
           /\ file' = h.o.file
           /\ last' = IF h.app.calls = 1
                      THEN Call("register", h.app.username, h.app.password,
                                h.o, file, rf, wf)
                      ELSE last
    /\ UNCHANGED <<mgr, preceding, procs, todo>>

\* the exit handler that prints and leaves the flag as it is
ExitKeepsRunning(a) ==
    [a EXCEPT !.pc = "loop", !.handler = "exit", !.reads = 0, !.message = "goodbye"]

\* _exit_application()
_exit_application(a) ==
    [a EXCEPT !.pc = "loop", !.handler = "exit", !.reads = 0, !.message = "goodbye",
              !.running = FALSE]

\* _dispatch("3"): _exit_application()
ExitApplication ==
    /\ app.pc = "dispatch"
    /\ app.choice = "3"
    /\ app' = _exit_application(app)
    /\ UNCHANGED <<file, mgr, last, preceding, procs, todo>>

\* the test of the loop fails and run returns
RunReturn ==
    /\ app.pc = "loop"
    /\ ~app.running
    /\ app' = [app EXCEPT !.pc = "returned", !.reads = 0, !.message = "none"]
    /\ UNCHANGED <<file, mgr, last, preceding, procs, todo>>

(* SpecShell: one App run from its construction, over a file that may hold *)
(* anything, with reads and writes that may fail and an input that may end *)
(* or be interrupted.                                                      *)

InitShell == file \in StoreFiles \cup ForeignFiles /\ InitCommon

NextShell ==
    \/ \E rf \in ReadOutcomes, wf \in WriteOutcomes : AppInit(rf, wf)
    \/ Run
    \/ \E in \in ChoiceInputs : ReadChoice(in)
    \/ DispatchInvalid
    \/ \E in1 \in UsernameInputs, in2 \in PasswordInputs, rf \in ReadOutcomes :
           HandleLogin(in1, in2, rf)
    \/ \E in1 \in UsernameInputs, in2 \in PasswordInputs, in3 \in PasswordInputs,
          rf \in ReadOutcomes, wf \in WriteOutcomes :
           HandleSignUp(in1, in2, in3, rf, wf)
    \/ ExitApplication
    \/ RunReturn

SpecShell == InitShell /\ [][NextShell]_vars

\* run is sequential code: once the loop's test can be made, it is made
SpecShellFair == SpecShell /\ WF_vars(RunReturn)

----------------------------------------------------------------------------
(* Vocabulary of the properties.                                           *)

\* text that is empty or whitespace only
Blank(text) == \A i \in 1..Len(text) : text[i].k = "ws"

EmptyArrayFile == FileOf(<<LB, RB>>)

\* the file holds a JSON array of objects
IsStore(f) ==
    /\ f.exists
    /\ \A i \in 1..Len(f.text) : f.text[i] # BadUtf8
    /\ json_loads(f.text).ok
    /\ json_loads(f.text).val.type = "list"
    /\ \A i \in 1..Len(json_loads(f.text).val.items) :
           json_loads(f.text).val.items[i].type = "dict"

\* the records of a store, in the order of the file
Records(f) == IF IsStore(f) THEN json_loads(f.text).val.items ELSE <<>>

NameOf(rec) == DictGet(rec, "username")

PasswordOf(rec) == DictGet(rec, "password")

\* some record of the store has this username
NameStored(f, username) ==
    \E i \in 1..Len(Records(f)) : NameOf(Records(f)[i]) = PyStr(username)

\* some record of the store has this username with this password
PairStored(f, username, password) ==
    \E i \in 1..Len(Records(f)) :
        /\ NameOf(Records(f)[i]) = PyStr(username)
        /\ PasswordOf(Records(f)[i]) = PyStr(password)

NonEmptyArgs(c) == c.username # "" /\ c.password # ""

\* some element of the JSON array in the file is an object with this username
NameInFile(f, username) ==
    /\ f.exists
    /\ json_loads(f.text).ok
    /\ json_loads(f.text).val.type = "list"
    /\ \E i \in 1..Len(json_loads(f.text).val.items) :
           /\ json_loads(f.text).val.items[i].type = "dict"
           /\ NameOf(json_loads(f.text).val.items[i]) = PyStr(username)

\* an App has been constructed
AppMade == app.pc \in {"made", "loop", "dispatch", "returned"} \/
           (app.pc = "raised" /\ mgr = "ready")

\* the step just taken was a handler that read all its entries
LoginDone == app.handler = "login" /\ app.reads = 2 /\ app.calls = 1

SignUpDone == app.handler = "sign_up" /\ app.reads = 3 /\ app.exc \notin {"EOFError", "KeyboardInterrupt"}

\* the last call is an authenticate that immediately follows a register of the
\* same username with non-empty arguments
AuthAfterRegister ==
    /\ last.op = "authenticate"
    /\ preceding.op = "register"
    /\ preceding.username = last.username
    /\ NonEmptyArgs(preceding)

----------------------------------------------------------------------------
(* C1: register(username, password) followed at once by authenticate with  *)
(* the same non-empty pair.                                                *)

\* C1 as stated: for every non-empty pair and every store, authenticate right
\* after register of the same pair returns true. Stated for a file that holds a
\* store and for reads and writes that do not fail.
C1_RegisterThenAuthenticateAlways ==
    ( /\ AuthAfterRegister
      /\ preceding.password = last.password
      /\ preceding.rf = "ok" /\ preceding.wf = "ok" /\ last.rf = "ok"
      /\ IsStore(last.before) )
    => last.result = "True"

\* C1 as amended: when register(username, password) returned true and its write
\* did not fail, authenticate with the same pair right after it, its read not
\* failing, returns true.
C1_RegisterThenAuthenticate ==
    ( /\ AuthAfterRegister
      /\ preceding.password = last.password
      /\ preceding.result = "True"
      /\ preceding.wf = "ok" /\ last.rf = "ok" )
    => last.result = "True"

C1_Witness ==
    /\ AuthAfterRegister
    /\ preceding.password = last.password
    /\ preceding.result = "True"
    /\ last.result = "True"

----------------------------------------------------------------------------
(* C2: a register of a username that the store already holds returns false *)
(* and leaves the file as it was; an authenticate right after it returns   *)
(* true for the password the store holds for that username and false for   *)
(* the rejected one when it differs.                                       *)

C2_DuplicateRegister ==
    /\ ( /\ last.op = "register"
         /\ NonEmptyArgs(last)
         /\ NameStored(last.before, last.username) )
       => (last.result = "False" /\ file = last.before)
    /\ ( /\ AuthAfterRegister
         /\ preceding.result = "False"
         /\ NonEmptyArgs(last) )
       => /\ NameStored(file, last.username)
          /\ PairStored(file, last.username, last.password)
                => last.result = "True"
          /\ ( /\ last.password = preceding.password
               /\ ~PairStored(file, last.username, preceding.password) )
                => last.result = "False"

\* the rejected password, different from the stored one, is tried and refused
C2_Witness ==
    /\ AuthAfterRegister
    /\ preceding.result = "False"
    /\ last.password = preceding.password
    /\ ~PairStored(file, last.username, last.password)
    /\ last.result = "False"

----------------------------------------------------------------------------
(* C3: with an empty username or an empty password, authenticate and       *)
(* register return false without reading or writing the file, whatever the *)
(* file holds.                                                             *)

C3_EmptyArgument ==
    ( /\ last.op \in {"authenticate", "register"}
      /\ ~NonEmptyArgs(last) )
    => /\ last.result = "False"
       /\ last.reads = 0
       /\ last.writes = 0
       /\ file = last.before

\* on a file that a call reading it would fail on
C3_Witness ==
    /\ last.op = "authenticate"
    /\ last.username = ""
    /\ last.password # ""
    /\ last.result = "False"
    /\ file = FileOf(<<LB, NumTok("1"), RB>>)

----------------------------------------------------------------------------
(* C4: with non-empty arguments, authenticate returns true exactly when    *)
(* some record of the store has that username with that password, both     *)
(* compared exactly; otherwise it returns false.                           *)

C4_AuthenticateIffStored ==
    ( last.op = "authenticate" /\ NonEmptyArgs(last) )
    => /\ last.result \in {"True", "False"}
       /\ last.result = "True" <=> PairStored(file, last.username, last.password)

\* one user's name with another user's password
C4_Witness ==
    /\ last.op = "authenticate"
    /\ last.result = "False"
    /\ NameStored(file, last.username)
    /\ \E i \in 1..Len(Records(file)) :
           PasswordOf(Records(file)[i]) = PyStr(last.password)

----------------------------------------------------------------------------
(* C5: no two records of the store have the same username.                 *)

C5_UniqueUsernames ==
    /\ mgr = "ready" => IsStore(file)
    /\ \A i, j \in 1..Len(Records(file)) :
           NameOf(Records(file)[i]) = NameOf(Records(file)[j]) => i = j

\* two users registered into a store that began empty
C5_Witness ==
    /\ Len(Records(file)) = 2
    /\ NameOf(Records(file)[1]) = PyStr(NamePool[1])
    /\ PasswordOf(Records(file)[1]) = PyStr(PasswordPool[1])
    /\ NameOf(Records(file)[2]) = PyStr(NamePool[2])

----------------------------------------------------------------------------
(* C6: construction writes an empty JSON array to a file that is absent or *)
(* blank, and does not write a file with any other content.                *)

C6_Bootstrap ==
    last.op = "__init__"
    => /\ ( ~last.before.exists /\ last.result = "None" )
            => file = EmptyArrayFile
       /\ ( last.before.exists /\ Blank(last.before.text) /\ last.result = "None" )
            => file = EmptyArrayFile
       /\ ( last.before.exists /\ ~Blank(last.before.text) )
            => (file = last.before /\ last.writes = 0)

\* a file of whitespace only is overwritten
C6_Witness ==
    /\ last.op = "__init__"
    /\ last.before = FileOf(<<SP, NL>>)
    /\ file = EmptyArrayFile

----------------------------------------------------------------------------
(* C8: loading never raises and gives no users for a file that cannot be   *)
(* read or that holds anything but a JSON array of user records.           *)

\* C8 as stated: on such a file _load_users returns [], authenticate returns
\* false, and register does what it does on an empty store
C8_LoadNeverRaises ==
    ( /\ last.op \in {"authenticate", "register"}
      /\ NonEmptyArgs(last)
      /\ (last.rf # "ok" \/ ~IsStore(last.before)) )
    => /\ _load_users(last.before, last.rf) = [exc |-> "none", val |-> PyList(<<>>)]
       /\ last.op = "authenticate" => last.result = "False"
       /\ last.op = "register" => last.result = "True"

----------------------------------------------------------------------------
(* C9: a register of a username the store does not hold, whose write       *)
(* fails, still returns true, after one write and no more, and the record  *)
(* is not in the file.                                                     *)

C9_SaveFailureSilent ==
    ( /\ last.op = "register"
      /\ NonEmptyArgs(last)
      /\ ~NameStored(last.before, last.username)
      /\ last.wf # "ok" )
    => /\ last.result = "True"
       /\ last.writes = 1
       /\ ~NameStored(file, last.username)
       /\ file \in {last.before, FileOf(<<>>)}

C9_Witness ==
    /\ last.op = "register"
    /\ last.wf = "write"
    /\ last.result = "True"
    /\ ~NameStored(last.before, last.username)
    /\ ~NameStored(file, last.username)

----------------------------------------------------------------------------
(* C10: two processes register different new usernames; both load the file *)
(* before either saves, and one saves after the other. Both calls return   *)
(* true, the file holds what both loaded followed by the later writer's    *)
(* record alone, and the earlier writer cannot authenticate.               *)

\* p and q loaded the same file, p's write was done when q opened the file,
\* and both calls have returned true
LostUpdateCase(p, q) ==
    /\ p # q
    /\ Finished(p) /\ Finished(q)
    /\ procs[p].result = "True" /\ procs[q].result = "True"
    /\ procs[p].username # procs[q].username
    /\ procs[p].seen = procs[q].seen
    /\ p \in procs[q].after

\* C10: whenever two registrations of different usernames loaded the same file
\* and one saved after the other, both returned true, the file is what both
\* loaded plus the later writer's record, and the earlier writer, whose
\* register returned true, cannot authenticate
C10_LostUpdate ==
    \A p, q \in Procs :
        LostUpdateCase(p, q)
        => LET n == Len(Records(procs[q].seen))
           IN  /\ IsStore(file)
               /\ Len(Records(file)) = n + 1
               /\ SubSeq(Records(file), 1, n) = Records(procs[q].seen)
               /\ NameOf(Records(file)[n + 1]) = PyStr(procs[q].username)
               /\ PasswordOf(Records(file)[n + 1]) = PyStr(procs[q].password)
               /\ ~NameStored(file, procs[p].username)
               /\ procs[p].pc = "checked" => procs[p].auth = "False"
               /\ procs[q].pc = "checked" => procs[q].auth = "True"

\* the earlier writer, whose register returned true, has tried to authenticate
C10_Witness ==
    \E p, q \in Procs :
        /\ LostUpdateCase(p, q)
        /\ procs[p].pc = "checked"
        /\ procs[p].auth = "False"

----------------------------------------------------------------------------
(* C7: an item read back from its dictionary equals the item, field by     *)
(* field, and the dictionary of the item read back is the dictionary it    *)
(* was read from.                                                          *)

C7_RoundTrip ==
    /\ todo.phase \in {"restored", "again"}
       => /\ todo.restored.exc = "none"
          /\ TodoItemEq(todo.restored.item, todo.item)
          /\ todo.restored.item.priority = todo.item.priority
          /\ todo.restored.item.status = todo.item.status
    /\ todo.phase = "again" => todo.again = todo.data

\* an item whose timestamps carry microseconds and a UTC offset
C7_Witness ==
    /\ todo.phase = "again"
    /\ todo.item.created_at.microsecond # 0
    /\ todo.item.updated_at.tz.aware
    /\ todo.item.updated_at.tz.offset < 0
    /\ todo.again = todo.data

----------------------------------------------------------------------------
(* C11: a register that returns true leaves the store holding the records  *)
(* it held before, each in its place, followed by the one new record; a    *)
(* register that returns false and every authenticate leave the file as it *)
(* was.                                                                    *)

\* C11: after a register that returned true the file is the pretty-printed
\* array of the earlier records, in their order, followed by the record of the
\* username and password given; after a register that returned false or an
\* authenticate the file is the file before the call
C11_RegisterFrame ==
    /\ (last.op = "register" /\ last.result = "True")
           => /\ IsStore(file)
              /\ Records(file) = Append(Records(last.before),
                                        UserRecord(last.username, last.password))
              /\ \A i \in 1..Len(Records(last.before)) :
                     /\ NameOf(Records(file)[i]) = NameOf(Records(last.before)[i])
                     /\ PasswordOf(Records(file)[i])
                            = PasswordOf(Records(last.before)[i])
              /\ file = UsersFile(Records(file))
    /\ (last.op = "register" /\ last.result = "False") => file = last.before
    /\ last.op = "authenticate" => file = last.before

\* a register that returned true on a store that already held a record
C11_Witness ==
    /\ last.op = "register"
    /\ last.result = "True"
    /\ Len(Records(last.before)) >= 1
    /\ Len(Records(file)) = Len(Records(last.before)) + 1

----------------------------------------------------------------------------
(* C12: the current user is None after construction, a login sets it to    *)
(* the trimmed username exactly when authenticate returns true for the     *)
(* trimmed entries, and it changes in no other way.                        *)

\* in every state: a new App has no user; a login that read both entries
\* called authenticate once with the entries trimmed, and set the user to the
\* trimmed username if that returned true; the user is never the empty string
C12_LoginState ==
    /\ app.pc = "made" => app.current_user = PyNone
    /\ app.current_user # PyStr("")
    /\ LoginDone
          => /\ last.op = "authenticate"
             /\ app.username = Text(strip(app.entered))
             /\ last.username = app.username
             /\ last.password = app.password
             /\ last.result = "True" => app.current_user = PyStr(app.username)
             /\ app.message = "welcome_back" <=> last.result = "True"

\* in every step: the user changes only in a login whose authenticate returned
\* true, and then to the username authenticate was called with
C12_LoginStep ==
    (AppMade /\ app'.current_user # app.current_user)
        => /\ app.pc = "dispatch"
           /\ app.choice = "1"
           /\ app'.handler = "login"
           /\ app'.calls = 1
           /\ last'.op = "authenticate"
           /\ last'.result = "True"
           /\ app'.current_user = PyStr(last'.username)

\* C12: the current user is None when the App is made; a login attempt sets
\* it to the trimmed username exactly when authenticate returned true for the
\* trimmed username and password, and every other step leaves it unchanged
C12_CurrentUser == []C12_LoginState /\ [][C12_LoginStep]_vars

\* a login as one user, typed with blanks around the name, after which the
\* current user is that name without the blanks
C12_Witness ==
    /\ LoginDone
    /\ last.result = "True"
    /\ app.entered = <<SP, Word(NamePool[1]), SP>>
    /\ app.current_user = PyStr(NamePool[1])

----------------------------------------------------------------------------
(* C13: the sign-up handler calls register at most once, and only with a   *)
(* non-empty trimmed username and password and a confirmation equal to the *)
(* password; otherwise the file is untouched; a false from register then   *)
(* means the username is in the file.                                      *)

\* in every state: a handler made at most one call; a sign-up that called
\* register had non-empty trimmed entries and a matching confirmation, and
\* called it with them; one with an empty entry or a mismatch made no call;
\* a False from register has the username in the file it read
C13_SignUpState ==
    /\ app.calls \in {0, 1}
    /\ (app.handler = "sign_up" /\ app.calls = 1)
          => /\ app.reads = 3
             /\ app.username # "" /\ app.password # ""
             /\ app.password = app.confirm_password
             /\ app.username = Text(strip(app.entered))
             /\ last.op = "register"
             /\ last.username = app.username
             /\ last.password = app.password
             /\ last.reads = 1
             /\ last.result = "False"
                   => /\ NameInFile(last.before, app.username)
                      /\ app.message = "exists"
                      /\ file = last.before
    /\ (SignUpDone /\ (app.username = "" \/ app.password = ""
                         \/ app.password # app.confirm_password))
          => /\ app.calls = 0
             /\ app.message \in {"empty", "mismatch"}
             /\ app.pc = "loop"

\* in every step: a sign-up that does not call register leaves the file as it is
C13_SignUpStep ==
    (app.pc = "dispatch" /\ app.choice = "2" /\ app'.calls = 0)
        => file' = file /\ last' = last

\* C13: register is called by the sign-up handler at most once and only with
\* non-empty trimmed username and password and an equal trimmed confirmation;
\* without the call the store is unchanged; a false result of that call means
\* the username already exists
C13_SignUpGuard == []C13_SignUpState /\ [][C13_SignUpStep]_vars

\* a sign-up, the name typed with blanks around it, whose register found the
\* username and returned false
C13_Witness ==
    /\ app.handler = "sign_up"
    /\ app.calls = 1
    /\ app.entered = <<SP, Word(NamePool[1]), SP>>
    /\ last.op = "register"
    /\ last.result = "False"
    /\ app.message = "exists"

----------------------------------------------------------------------------
(* C14: the running flag is true from construction until "3" is            *)
(* dispatched and false from then on; with the flag false no input is read *)
(* and run returns; a choice other than "1", "2", "3" changes nothing and  *)
(* the loop prompts again.                                                 *)

\* in every state of a constructed App: the flag is false exactly when the
\* exit handler has run; run has returned only with the flag false; with the
\* flag true at the head of the loop the next choice can be read
C14_LoopState ==
    /\ AppMade => (app.running <=> app.handler # "exit")
    /\ app.handler = "exit" => app.choice = "3"
    /\ app.pc = "returned" => ~app.running
    /\ (app.pc = "raised" /\ mgr = "ready") => app.running
    /\ (app.pc = "loop" /\ app.running) => ENABLED (\E in \in ChoiceInputs : ReadChoice(in))
    /\ app.handler = "invalid"
          => /\ app.choice \notin {"1", "2", "3"}
             /\ app.message = "invalid_selection"
             /\ app.pc = "loop"
             /\ app.running

\* in every step: with the flag false the only step is the return of run,
\* which reads nothing; "3" at the dispatch clears the flag, and nothing else
\* does; a choice without a handler leaves the flag, the user and the file
C14_LoopStep ==
    /\ (AppMade /\ ~app.running)
          => /\ app'.pc = "returned"
             /\ app'.reads = 0
             /\ ~app'.running
             /\ file' = file
             /\ app'.current_user = app.current_user
    /\ (app.pc = "dispatch" /\ app.choice = "3") => ~app'.running /\ app'.pc = "loop"
    /\ (app.running /\ ~app'.running) => (app.pc = "dispatch" /\ app.choice = "3")
    /\ (app.pc = "dispatch" /\ app.choice \notin {"1", "2", "3"})
          => /\ app'.handler = "invalid"
             /\ app'.message = "invalid_selection"
             /\ app'.running = app.running
             /\ app'.current_user = app.current_user
             /\ file' = file
             /\ app'.reads = 0
             /\ app'.pc = "loop"

\* C14: the running flag is true from construction until "3" is dispatched
\* and false from then on; once it is false no input is read and run returns;
\* any other choice than "1", "2", "3" reports an invalid selection, leaves
\* the flag, the current user and the store unchanged, and the loop prompts
\* again
C14_RunLoop ==
    /\ []C14_LoopState
    /\ [][C14_LoopStep]_vars
    /\ (AppMade /\ ~app.running) ~> (app.pc = "returned")

\* run has returned after an invalid choice was reported and "3", typed with
\* blanks around it, was dispatched
C14_Witness ==
    /\ app.pc = "returned"
    /\ app.handler = "exit"
    /\ app.choice = "3"
    /\ ~app.running

====
